---- MODULE Spec2Model ----
\* Model of the narration core of the AI-Powered Document Reader:
\* the useSpeechSynthesis hook (voice catalog + play/pause/stop) and the
\* App component's word cursor (handleBoundary / handleEnd / handleFileProcessed),
\* running against an asynchronous Web Speech backend.
EXTENDS Integers, Naturals, Sequences, FiniteSets, TLC

\* ---------------------------------------------------------------- bounds
MaxUtt == 2
MaxCharIndex == 3
MaxFnK == 18
CatalogUtt == 1

\* ---------------------------------------------------------------- strings
StartsWith(s, p) == Len(s) >= Len(p) /\ SubSeq(s, 1, Len(p)) = p

Includes(s, sub) ==
  \E i \in 0..(Len(s) - Len(sub)) : SubSeq(s, i + 1, i + Len(sub)) = sub

\* /\s/: space, \t, \n, \r, \f, and as literal characters \v (U+000B), U+00A0, U+1680 and
\* U+FEFF; the remaining Unicode space separators (U+2000-U+200A, U+2028, U+2029, U+202F,
\* U+205F, U+3000) cannot occur in a TLA+ string
IsWS(c) == c \in {" ", "\t", "\n", "\r", "\f", "", " ", " ", "﻿"}

Min(a, b) == IF a < b THEN a ELSE b
Max(a, b) == IF a > b THEN a ELSE b

\* String.prototype.substring(0, k): k clamped to [0, length]
Substring0(s, k) == SubSeq(s, 1, Min(Max(k, 0), Len(s)))

\* first index >= i that is not whitespace (or Len(s)+1)
RECURSIVE EndRun(_, _)
EndRun(s, i) == IF i > Len(s) THEN i
                ELSE IF IsWS(SubSeq(s, i, i)) THEN EndRun(s, i + 1) ELSE i

\* String.prototype.split(/\s+/): pieces between maximal whitespace runs,
\* empty leading/trailing pieces kept
RECURSIVE SplitAux(_, _, _, _)
SplitAux(s, i, cur, acc) ==
  IF i > Len(s) THEN Append(acc, cur)
  ELSE IF IsWS(SubSeq(s, i, i))
       THEN SplitAux(s, EndRun(s, i), "", Append(acc, cur))
       ELSE SplitAux(s, i + 1, cur \o SubSeq(s, i, i), acc)

SplitWS(s) == SplitAux(s, 1, "", <<>>)

\* ---------------------------------------------------------------- inputs
\* raw voices as returned by speechSynthesis.getVoices()
RV2 == [name |-> "Google US English", lang |-> "en-US", voiceURI |-> "u2"]
RV3 == [name |-> "Google francais", lang |-> "fr-FR", voiceURI |-> "u3"]
RV4 == [name |-> "Luciana", lang |-> "pt-BR", voiceURI |-> "u4"]
RV5 == [name |-> "Google espanol", lang |-> "es-ES", voiceURI |-> "u5"]
RV6 == [name |-> "Google UK English Female", lang |-> "en-GB", voiceURI |-> "u6"]

\* no voices; two preferred (Google, en) voices; no preferred voice (fallback to the first)
VoiceLists == { <<>>, <<RV3, RV5, RV2, RV6>>, <<RV3, RV4, RV5>> }

\* a backend that only ever reports the last list
SessionLists == { <<RV3, RV4, RV5>> }

Texts == { "a b" }

\* null for selectedVoice
NoVoice == [name |-> "", lang |-> "", uri |-> ""]

\* ---------------------------------------------------------------- helpers
\* handleVoicesChanged: filter + map
ToVoice(v) == [name |-> v.name, lang |-> v.lang, uri |-> v.voiceURI]

RECURSIVE FilterMap(_)
FilterMap(l) ==
  IF l = <<>> THEN <<>>
  ELSE LET v == Head(l)
           rest == FilterMap(Tail(l))
       IN IF StartsWith(v.lang, "en") \/ StartsWith(v.lang, "es") \/ StartsWith(v.lang, "pt")
          THEN <<ToVoice(v)>> \o rest
          ELSE rest

IsPreferredNameOnly(v) == Includes(v.name, "Google")

IsPreferred(v) == Includes(v.name, "Google") /\ StartsWith(v.lang, "en")

\* availableVoices.find(pred) || availableVoices[0]
RECURSIVE FindPreferred(_)
FindPreferred(l) ==
  IF l = <<>> THEN NoVoice
  ELSE IF IsPreferred(Head(l)) THEN Head(l) ELSE FindPreferred(Tail(l))

DefaultVoice(av) == IF FindPreferred(av) # NoVoice THEN FindPreferred(av) ELSE av[1]

\* the selectedVoice seen by handleVoicesChanged: the effect has [] deps,
\* so its closure keeps the value of the first render (useState(null))
EffectSelected == NoVoice

WordIndexPerChar(t, k) ==
  Cardinality({i \in 1..Len(Substring0(t, k)) : IsWS(SubSeq(t, i, i))})

\* handleBoundary: word index for a boundary at charIndex k over text t
WordIndex(t, k) == Len(SplitWS(Substring0(t, k))) - 1

\* ---------------------------------------------------------------- state
VARIABLES
  backendVoices,   \* speechSynthesis.getVoices()
  voices,          \* hook state: availableVoices
  selectedVoice,   \* hook state (NoVoice = null)
  isSpeaking,      \* hook state
  isPaused,        \* hook state
  utteranceRef,    \* hook ref: utterance id, 0 = null
  extractedText,   \* App state
  currentWordIndex,\* App state
  bqueue,          \* backend utterance queue; Head is the one being spoken
  bPaused,         \* backend paused flag
  stale,           \* cancelled utterances whose end/error (and queued boundary) events are still to be dispatched
  uttText,         \* text bound into each utterance's onboundary closure (handleBoundary's extractedText)
  lastOp,          \* operation or event that produced this state
  calls,           \* backend requests issued by that operation, in order
  eventUtt,        \* utterance whose event produced this state, 0 = none
  mounted,         \* App (and the hook) still mounted
  isProcessing,    \* App state (FileUpload in progress)
  error,           \* App state: "" = null, "err" = an error message
  preLoad,         \* cancelled utterances that were started before the last handleFileProcessed
  rendered,        \* state values of the last committed render, seen by the handlers' closures
  ft, fk, fidx     \* handleBoundary applied to a text / offset (pure-function check only)

vars == <<backendVoices, voices, selectedVoice, isSpeaking, isPaused, utteranceRef,
          extractedText, currentWordIndex, bqueue, bPaused, stale, uttText,
          lastOp, calls, eventUtt, mounted, isProcessing, error, preLoad, rendered,
          ft, fk, fidx>>

AppVars == <<mounted, isProcessing, error>>

\* what a render captures: state read by play/pause (useCallback deps), by the Controls
\* closures (extractedText, voices) and by FileUpload (isProcessing)
Snapshot == [isSpeaking |-> isSpeaking, isPaused |-> isPaused, selectedVoice |-> selectedVoice,
             voices |-> voices, extractedText |-> extractedText, isProcessing |-> isProcessing]
FnVars == <<ft, fk, fidx>>

\* SpeechSynthesisUtterance handles the backend can hold (fixed by the initial state)
UttIds == DOMAIN uttText

\* mount: useState initial values, then the effect's direct handleVoicesChanged() call
MainInitFrom(Ls, Ids) ==
  /\ backendVoices \in Ls
  /\ voices = FilterMap(backendVoices)
  /\ selectedVoice = IF Len(voices) > 0 /\ EffectSelected = NoVoice
                     THEN DefaultVoice(voices) ELSE NoVoice
  /\ isSpeaking = FALSE
  /\ isPaused = FALSE
  /\ utteranceRef = 0
  /\ extractedText = ""
  /\ currentWordIndex = -1
  /\ bqueue = <<>>
  /\ bPaused = FALSE
  /\ stale = {}
  /\ uttText = [u \in Ids |-> ""]
  /\ lastOp = "init"
  /\ calls = <<>>
  /\ eventUtt = 0
  /\ mounted = TRUE
  /\ isProcessing = FALSE
  /\ error = ""
  /\ preLoad = {}
  /\ rendered = Snapshot

MainInit == MainInitFrom(VoiceLists, 1..MaxUtt)

Init ==
  /\ MainInit
  /\ ft = ""
  /\ fk = 0
  /\ fidx = WordIndex("", 0)

\* speechSynthesis.cancel(): every queued utterance is dropped and will
\* still dispatch its end/error event; the backend's paused flag is left as it is
CancelStale == stale \cup {bqueue[i] : i \in DOMAIN bqueue}

\* utterance handles still known to the backend; a new SpeechSynthesisUtterance
\* takes a handle that is not
InUse == stale \cup {bqueue[i] : i \in DOMAIN bqueue}

FreeIds == UttIds \ InUse

NewId == CHOOSE u \in FreeIds : \A v \in FreeIds : u <= v

CancelQueueKeep(q) == q

\* the backend queue after speechSynthesis.cancel()
CancelQueue(q) == <<>>

PlayResumesOnSpeaking == rendered.isSpeaking /\ utteranceRef # 0

\* play() reads isPaused and selectedVoice from the closure of the last render
\* (utteranceRef.current is read live)
PlayResumes == rendered.isPaused /\ utteranceRef # 0
PlayStarts(text) == ~PlayResumes /\ text # "" /\ rendered.selectedVoice # NoVoice

\* React flushes the updates of a discrete user event before the next one: the
\* handler's own updates are rendered
Commit ==
  rendered' = [isSpeaking |-> isSpeaking', isPaused |-> isPaused', selectedVoice |-> selectedVoice',
               voices |-> voices', extractedText |-> extractedText', isProcessing |-> isProcessing']

\* play(text) as called by Controls: play(extractedText), extractedText of the last render
Play ==
  LET text == rendered.extractedText IN
  /\ mounted
  /\ PlayStarts(text) => FreeIds # {}
  /\ lastOp' = "play"
  /\ eventUtt' = 0
  /\ IF PlayResumes
     THEN /\ bPaused' = FALSE
          /\ isPaused' = FALSE
          /\ isSpeaking' = TRUE
          /\ calls' = <<"resume">>
          /\ UNCHANGED <<bqueue, stale, uttText, utteranceRef, preLoad>>
     ELSE IF PlayStarts(text)
     THEN /\ stale' = CancelStale
          /\ bqueue' = Append(CancelQueue(bqueue), NewId)
          /\ bPaused' = bPaused
          /\ uttText' = [uttText EXCEPT ![NewId] = text]
          /\ utteranceRef' = NewId
          /\ preLoad' = preLoad \ {NewId}
          /\ isSpeaking' = TRUE
          /\ isPaused' = FALSE
          /\ calls' = <<"cancel", "speak">>
     ELSE /\ calls' = <<>>
          /\ UNCHANGED <<bqueue, bPaused, stale, uttText, utteranceRef, preLoad,
                         isSpeaking, isPaused>>
  /\ UNCHANGED <<backendVoices, voices, selectedVoice, extractedText, currentWordIndex>>
  /\ UNCHANGED <<AppVars, FnVars>>
  /\ Commit

PauseKeepSpeaking ==
  /\ mounted
  /\ lastOp' = "pause"
  /\ eventUtt' = 0
  /\ IF rendered.isSpeaking /\ ~rendered.isPaused
     THEN /\ bPaused' = TRUE
          /\ isPaused' = TRUE
          /\ calls' = <<"pause">>
     ELSE /\ calls' = <<>>
          /\ UNCHANGED <<bPaused, isPaused>>
  /\ UNCHANGED <<isSpeaking, backendVoices, voices, selectedVoice, utteranceRef, extractedText,
                 currentWordIndex, bqueue, stale, uttText, preLoad>>
  /\ UNCHANGED <<AppVars, FnVars>>
  /\ Commit

\* pause(): isSpeaking / isPaused from the closure of the last render
Pause ==
  /\ mounted
  /\ lastOp' = "pause"
  /\ eventUtt' = 0
  /\ IF rendered.isSpeaking /\ ~rendered.isPaused
     THEN /\ bPaused' = TRUE
          /\ isPaused' = TRUE
          /\ isSpeaking' = FALSE
          /\ calls' = <<"pause">>
     ELSE /\ calls' = <<>>
          /\ UNCHANGED <<bPaused, isPaused, isSpeaking>>
  /\ UNCHANGED <<backendVoices, voices, selectedVoice, utteranceRef, extractedText,
                 currentWordIndex, bqueue, stale, uttText, preLoad>>
  /\ UNCHANGED <<AppVars, FnVars>>
  /\ Commit

StopEffectNoOnEnd ==
  /\ stale' = CancelStale
  /\ bqueue' = CancelQueue(bqueue)
  /\ bPaused' = bPaused
  /\ isSpeaking' = FALSE
  /\ isPaused' = FALSE
  /\ utteranceRef' = 0
  /\ currentWordIndex' = currentWordIndex
  /\ calls' = <<"cancel">>

\* stop(): cancel, clear flags and ref, onEnd() = handleEnd
StopEffect ==
  /\ stale' = CancelStale
  /\ bqueue' = CancelQueue(bqueue)
  /\ bPaused' = bPaused
  /\ isSpeaking' = FALSE
  /\ isPaused' = FALSE
  /\ utteranceRef' = 0
  /\ currentWordIndex' = -1
  /\ calls' = <<"cancel">>

Stop ==
  /\ mounted
  /\ lastOp' = "stop"
  /\ eventUtt' = 0
  /\ StopEffect
  /\ UNCHANGED <<backendVoices, voices, selectedVoice, extractedText, uttText, preLoad>>
  /\ UNCHANGED <<AppVars, FnVars>>
  /\ Commit

\* FileUpload.handleFile(file): early returns, setError(null), setProcessing(true),
\* then the asynchronous parsePdf / parseDocx starts
FileSelect ==
  /\ mounted
  /\ ~rendered.isProcessing
  /\ lastOp' = "decode"
  /\ eventUtt' = 0
  /\ error' = ""
  /\ isProcessing' = TRUE
  /\ calls' = <<>>
  /\ UNCHANGED <<backendVoices, voices, selectedVoice, isSpeaking, isPaused, utteranceRef,
                 extractedText, currentWordIndex, bqueue, bPaused, stale, uttText,
                 mounted, preLoad, FnVars>>
  /\ Commit

\* decoding resolves: onFileProcessed(text) = handleFileProcessed: stop(); setExtractedText(text);
\* finally setProcessing(false). Runs in a promise continuation: rendered later. After unmount
\* setState is ignored, but stop() still cancels the backend and nulls utteranceRef.current.
Load ==
  \E t \in Texts :
    /\ isProcessing
    /\ lastOp' = "load"
    /\ eventUtt' = 0
    /\ IF mounted
       THEN /\ StopEffect
            /\ extractedText' = t
            /\ isProcessing' = FALSE
            /\ preLoad' = CancelStale
       ELSE /\ stale' = CancelStale
            /\ bqueue' = CancelQueue(bqueue)
            /\ bPaused' = bPaused
            /\ utteranceRef' = 0
            /\ calls' = <<"cancel">>
            /\ UNCHANGED <<isSpeaking, isPaused, currentWordIndex,
                           extractedText, isProcessing, preLoad>>
    /\ UNCHANGED <<backendVoices, voices, selectedVoice, uttText,
                   mounted, error, rendered, FnVars>>

DecodeFailStops ==
  /\ isProcessing
  /\ mounted
  /\ lastOp' = "decodefail"
  /\ eventUtt' = 0
  /\ StopEffect
  /\ error' = "err"
  /\ isProcessing' = FALSE
  /\ UNCHANGED <<backendVoices, voices, selectedVoice, extractedText, uttText,
                 mounted, preLoad, rendered, FnVars>>

\* decoding rejects (unsupported type, missing library, unreadable or corrupt file):
\* catch: setError(message); finally: setProcessing(false)
DecodeFail ==
  /\ isProcessing
  /\ lastOp' = "decodefail"
  /\ eventUtt' = 0
  /\ IF mounted
     THEN /\ error' = "err"
          /\ isProcessing' = FALSE
     ELSE UNCHANGED <<error, isProcessing>>
  /\ calls' = <<>>
  /\ UNCHANGED <<backendVoices, voices, selectedVoice, isSpeaking, isPaused, utteranceRef,
                 extractedText, currentWordIndex, bqueue, bPaused, stale, uttText,
                 mounted, preLoad, rendered, FnVars>>

\* Controls.handleVoiceSelect -> setSelectedVoice(voice), voice looked up in the voices
\* of the last render
Select ==
  \E i \in DOMAIN rendered.voices :
    /\ mounted
    /\ lastOp' = "select"
    /\ eventUtt' = 0
    /\ selectedVoice' = rendered.voices[i]
    /\ calls' = <<>>
    /\ UNCHANGED <<backendVoices, voices, isSpeaking, isPaused, utteranceRef, extractedText,
                   currentWordIndex, bqueue, bPaused, stale, uttText, preLoad>>
    /\ UNCHANGED <<AppVars, FnVars>>
    /\ Commit

\* backend re-enumerates its voices and fires 'voiceschanged'; handleVoicesChanged runs
\* while the listener is registered (until teardown)
VoicesChangedFrom(Ls) ==
  \E l \in Ls :
    LET av == FilterMap(l) IN
    /\ lastOp' = "voiceschanged"
    /\ eventUtt' = 0
    /\ backendVoices' = l
    /\ IF mounted
       THEN /\ voices' = av
            /\ selectedVoice' = IF Len(av) > 0 /\ EffectSelected = NoVoice
                                THEN DefaultVoice(av) ELSE selectedVoice
       ELSE UNCHANGED <<voices, selectedVoice>>
    /\ calls' = <<>>
    /\ UNCHANGED <<isSpeaking, isPaused, utteranceRef, extractedText,
                   currentWordIndex, bqueue, bPaused, stale, uttText, preLoad>>
    /\ UNCHANGED <<AppVars, rendered, FnVars>>

\* utterances whose events can still be dispatched: the one being spoken
\* (boundaries only while not paused) and the cancelled ones
Speaking(u) == bqueue # <<>> /\ u = Head(bqueue)

\* utterance.onboundary = handleBoundary (closure over its extractedText);
\* setState after unmount has no effect
Boundary ==
  \E u \in UttIds, k \in 0..MaxCharIndex :
    /\ (Speaking(u) /\ ~bPaused) \/ u \in stale
    /\ lastOp' = "boundary"
    /\ eventUtt' = u
    /\ currentWordIndex' = IF mounted THEN WordIndex(uttText[u], k) ELSE currentWordIndex
    /\ calls' = <<>>
    /\ UNCHANGED <<backendVoices, voices, selectedVoice, isSpeaking, isPaused, utteranceRef,
                   extractedText, bqueue, bPaused, stale, uttText, preLoad>>
    /\ UNCHANGED <<AppVars, rendered, FnVars>>

\* the utterance finishes (spoken one) or its cancellation is dispatched (stale one)
\* (a handle the backend has released carries no closure text and no pre-load mark)
Finish(u) ==
  /\ Speaking(u) \/ u \in stale
  /\ bqueue' = IF Speaking(u) THEN Tail(bqueue) ELSE bqueue
  /\ bPaused' = bPaused
  /\ stale' = stale \ {u}
  /\ preLoad' = preLoad \ {u}
  /\ uttText' = [uttText EXCEPT ![u] = ""]

\* utterance.onend: setIsSpeaking(false); setIsPaused(false); onEnd()
UttEnd ==
  \E u \in UttIds :
    /\ Finish(u)
    /\ lastOp' = "end"
    /\ eventUtt' = u
    /\ IF mounted
       THEN /\ isSpeaking' = FALSE
            /\ isPaused' = FALSE
            /\ currentWordIndex' = -1
       ELSE UNCHANGED <<isSpeaking, isPaused, currentWordIndex>>
    /\ calls' = <<>>
    /\ UNCHANGED <<backendVoices, voices, selectedVoice, utteranceRef, extractedText>>
    /\ UNCHANGED <<AppVars, rendered, FnVars>>

\* utterance.onerror: console.error; setIsSpeaking(false); setIsPaused(false)
UttError ==
  \E u \in UttIds :
    /\ Finish(u)
    /\ lastOp' = "error"
    /\ eventUtt' = u
    /\ IF mounted
       THEN /\ isSpeaking' = FALSE
            /\ isPaused' = FALSE
       ELSE UNCHANGED <<isSpeaking, isPaused>>
    /\ calls' = <<>>
    /\ UNCHANGED <<backendVoices, voices, selectedVoice, utteranceRef, extractedText,
                   currentWordIndex>>
    /\ UNCHANGED <<AppVars, rendered, FnVars>>

TeardownNoCancel ==
  /\ mounted
  /\ lastOp' = "teardown"
  /\ eventUtt' = 0
  /\ mounted' = FALSE
  /\ calls' = <<>>
  /\ UNCHANGED <<backendVoices, voices, selectedVoice, isSpeaking, isPaused, utteranceRef,
                 extractedText, currentWordIndex, uttText, bqueue, bPaused, stale,
                 isProcessing, error, preLoad, rendered, FnVars>>

\* effect cleanup on unmount: removeEventListener('voiceschanged'); speechSynthesis.cancel()
Teardown ==
  /\ mounted
  /\ lastOp' = "teardown"
  /\ eventUtt' = 0
  /\ mounted' = FALSE
  /\ stale' = CancelStale
  /\ bqueue' = CancelQueue(bqueue)
  /\ bPaused' = bPaused
  /\ calls' = <<"cancel">>
  /\ UNCHANGED <<backendVoices, voices, selectedVoice, isSpeaking, isPaused, utteranceRef,
                 extractedText, currentWordIndex, uttText,
                 isProcessing, error, preLoad, rendered, FnVars>>

\* React commits the pending updates of callbacks and promise continuations
Render ==
  /\ mounted
  /\ rendered # Snapshot
  /\ rendered' = Snapshot
  /\ lastOp' = "render"
  /\ eventUtt' = 0
  /\ calls' = <<>>
  /\ UNCHANGED <<backendVoices, voices, selectedVoice, isSpeaking, isPaused, utteranceRef,
                 extractedText, currentWordIndex, bqueue, bPaused, stale, uttText,
                 mounted, isProcessing, error, preLoad, FnVars>>

Next == Play \/ Pause \/ Stop \/ FileSelect \/ Load \/ DecodeFail \/ Select
        \/ VoicesChangedFrom(VoiceLists) \/ Boundary \/ UttEnd \/ UttError \/ Teardown \/ Render

Spec == Init /\ [][Next]_vars

\* the same program against a backend that always reports SessionLists
SessionInit ==
  /\ MainInitFrom(SessionLists, 1..MaxUtt)
  /\ ft = "" /\ fk = 0 /\ fidx = WordIndex("", 0)

SessionNext == Play \/ Pause \/ Stop \/ FileSelect \/ Load \/ DecodeFail \/ Select
               \/ VoicesChangedFrom(SessionLists) \/ Boundary \/ UttEnd \/ UttError
               \/ Teardown \/ Render

SessionSpec == SessionInit /\ [][SessionNext]_vars

\* the same program with every voice list but fewer utterance handles
CatalogInit ==
  /\ MainInitFrom(VoiceLists, 1..CatalogUtt)
  /\ ft = "" /\ fk = 0 /\ fidx = WordIndex("", 0)

CatalogSpec == CatalogInit /\ [][Next]_vars

\* handleBoundary over the successive, non-decreasing boundary offsets of one utterance
FnTexts == { "Hello brave world", " a  b", "a\r\fb\t", "a b c" }

FnInit ==
  /\ MainInit
  /\ ft \in FnTexts
  /\ fk = 0
  /\ fidx = WordIndex(ft, 0)

FnBoundary ==
  /\ \E k \in (fk + 1)..MaxFnK :
       /\ fk' = k
       /\ fidx' = WordIndex(ft, k)
  /\ ft' = ft
  /\ UNCHANGED <<backendVoices, voices, selectedVoice, isSpeaking, isPaused, utteranceRef,
                 extractedText, currentWordIndex, bqueue, bPaused, stale, uttText,
                 lastOp, calls, eventUtt, mounted, isProcessing, error, preLoad, rendered>>

FnSpec == FnInit /\ [][FnBoundary]_vars

\* ================================================================ properties

Idle == ~isSpeaking /\ ~isPaused

\* C1: an end, error or boundary event of an utterance that was cancelled or
\* replaced leaves currentWordIndex and the play state of the current session unchanged.
StaleEventNoop ==
  [][ (eventUtt' # 0 /\ eventUtt' \in stale)
        => /\ currentWordIndex' = currentWordIndex
           /\ isSpeaking' = isSpeaking
           /\ isPaused' = isPaused ]_vars

\* C2: whenever the play state is Idle, currentWordIndex is -1.
IdleCursorReset == Idle => currentWordIndex = -1

\* C3: a backend error of the utterance being spoken while Speaking returns to Idle
\* with currentWordIndex = -1 and issues no further backend request.
ErrorIsTerminal ==
  [][ (lastOp' = "error" /\ isSpeaking /\ Speaking(eventUtt'))
        => /\ Idle'
           /\ currentWordIndex' = -1
           /\ calls' = <<>> ]_vars

\* C4: stop() from any state yields Idle with currentWordIndex = -1 and a null
\* utterance handle, issuing exactly one cancel request; a second stop() changes nothing.
StopResets ==
  [][ lastOp' = "stop"
        => /\ Idle'
           /\ currentWordIndex' = -1
           /\ utteranceRef' = 0
           /\ calls' = <<"cancel">>
           /\ (lastOp = "stop" =>
                 UNCHANGED <<backendVoices, voices, selectedVoice, isSpeaking, isPaused,
                             utteranceRef, extractedText, currentWordIndex, bqueue,
                             bPaused, stale, uttText, preLoad>>) ]_vars

StopWitness == lastOp = "stop" /\ stale # {}

\* C5: at most one utterance is ever active (spoken or paused) in the backend.
SingleActiveUtterance == Len(bqueue) <= 1

SingleActiveWitness == Len(bqueue) = 1 /\ stale # {} /\ lastOp = "play"

\* C6: play(text) that starts a new utterance leaves the controller Speaking with
\* currentWordIndex = -1.
NewUtteranceStartsAtMinusOne ==
  [][ (lastOp' = "play" /\ calls' = <<"cancel", "speak">>)
        => isSpeaking' /\ ~isPaused' /\ currentWordIndex' = -1 ]_vars

\* C7: play() while Paused with a live handle resumes that same handle: one backend
\* resume, no speak, back to Speaking.
PausedPlayResumes ==
  [][ (lastOp' = "play" /\ isPaused /\ utteranceRef # 0)
        => /\ calls' = <<"resume">>
           /\ utteranceRef' = utteranceRef
           /\ bqueue' = bqueue
           /\ ~bPaused'
           /\ isSpeaking' /\ ~isPaused' ]_vars

ResumeWitness == lastOp = "play" /\ calls = <<"resume">> /\ Len(bqueue) = 1

\* C8: a voices-changed refresh never replaces a set selectedVoice that is still in
\* the new voice list.
SelectionNotOverwritten ==
  [][ (lastOp' = "voiceschanged" /\ selectedVoice # NoVoice
       /\ \E i \in DOMAIN voices' : voices'[i] = selectedVoice)
        => selectedVoice' = selectedVoice ]_vars

\* C9: play() with non-empty text and no voice ever discovered still issues a speak
\* request (backend default voice).
PlayWithoutVoicesSpeaks ==
  [][ (lastOp' = "play" /\ rendered.extractedText # "" /\ voices = <<>>
       /\ selectedVoice = NoVoice /\ ~PlayResumes)
        => calls' = <<"cancel", "speak">> ]_vars

\* C10: every refresh (startup and voices-changed) keeps exactly the en/es/pt voices in
\* discovery order, and when selectedVoice was unset and the list is non-empty selects
\* the first English voice whose name contains "Google", else the first voice.
AllowedLang(v) == \E p \in {"en", "es", "pt"} : SubSeq(v.lang, 1, 2) = p

ExpectedVoices(l) ==
  LET kept == SelectSeq(l, AllowedLang)
  IN [i \in 1..Len(kept) |-> [name |-> kept[i].name, lang |-> kept[i].lang, uri |-> kept[i].voiceURI]]

ExpectedDefault(av) ==
  LET prefs == {i \in DOMAIN av : Includes(av[i].name, "Google") /\ SubSeq(av[i].lang, 1, 2) = "en"}
  IN IF prefs # {} THEN av[CHOOSE i \in prefs : \A j \in prefs : i <= j] ELSE av[1]

InitRefreshPost ==
  /\ voices = ExpectedVoices(backendVoices)
  /\ Len(voices) > 0 => selectedVoice = ExpectedDefault(voices)

DefaultVoiceChosen ==
  /\ InitRefreshPost
  /\ [][ (lastOp' = "voiceschanged" /\ mounted)
          => /\ voices' = ExpectedVoices(backendVoices')
             /\ (Len(voices') > 0 /\ selectedVoice = NoVoice)
                   => selectedVoice' = ExpectedDefault(voices') ]_vars

DefaultVoiceWitness ==
  /\ lastOp = "voiceschanged" /\ mounted
  /\ Len(voices) > 0 /\ selectedVoice = voices[1] /\ StartsWith(voices[1].lang, "pt")
  /\ \E i \in DOMAIN voices : Includes(voices[i].name, "Google")

\* C11: handleFileProcessed first stops any in-flight utterance (Idle, cursor -1, one
\* cancel, empty backend queue), and a boundary event of an utterance started before the
\* load never moves the cursor over the new text.
LoadIsolatesStaleCursor ==
  /\ [][ (lastOp' = "load" /\ mounted)
          => /\ bqueue' = <<>>
             /\ Idle'
             /\ currentWordIndex' = -1
             /\ calls' = <<"cancel">> ]_vars
  /\ [][ (lastOp' = "boundary" /\ eventUtt' \in preLoad)
          => currentWordIndex' = currentWordIndex ]_vars

\* C12: a failed decode leaves the narration session (text, play state, cursor, backend)
\* unchanged, issues no backend request and only sets the error message.
DecodeFailureKeepsSession ==
  [][ (lastOp' = "decodefail" /\ mounted)
        => /\ UNCHANGED <<extractedText, isSpeaking, isPaused, currentWordIndex,
                          utteranceRef, bqueue, bPaused>>
           /\ calls' = <<>>
           /\ error' = "err" ]_vars

DecodeFailureWitness == lastOp = "decodefail" /\ error = "err" /\ isSpeaking

\* C13: the word index of a boundary at offset k is the number of tokens of the first k
\* characters split on whitespace runs, minus one ("Hello brave world", 6 -> 1), and it
\* never decreases over non-decreasing offsets.
ExpectedIndex(t, k) ==
  LET p == Substring0(t, k)
  IN Cardinality({i \in 1..Len(p) :
                    IsWS(SubSeq(p, i, i)) /\ (i = 1 \/ ~IsWS(SubSeq(p, i - 1, i - 1)))})

BoundaryWordIndex ==
  /\ [](fidx = ExpectedIndex(ft, fk))
  /\ [](ft = "Hello brave world" /\ fk = 6 => fidx = 1)
  /\ [][fidx' >= fidx]_vars

BoundaryWordIndexWitness == ft = "Hello brave world" /\ fk = 6

\* C14: pause() pauses the backend and moves to Paused only when Speaking; otherwise it
\* changes nothing and issues no backend request.
PauseOnlyWhenSpeaking ==
  [][ lastOp' = "pause"
        => IF isSpeaking
           THEN isPaused' /\ ~isSpeaking' /\ bPaused' /\ calls' = <<"pause">>
           ELSE UNCHANGED <<isSpeaking, isPaused, bPaused>> /\ calls' = <<>> ]_vars

PauseWitness == lastOp = "pause" /\ calls = <<"pause">>

\* C15: after teardown no utterance is left in the backend and no later callback changes
\* the discarded session.
TeardownHaltsSession ==
  /\ [](~mounted => bqueue = <<>>)
  /\ [][ ~mounted
          => UNCHANGED <<voices, selectedVoice, isSpeaking, isPaused,
                         extractedText, currentWordIndex, isProcessing, error>> ]_vars

TeardownWitness == ~mounted /\ lastOp \in {"end", "error"}

\* C16: isSpeaking and isPaused are never both true.
FlagsExclusive == ~(isSpeaking /\ isPaused)

FlagsExclusiveWitness == isPaused /\ lastOp = "pause"

\* C17: Paused implies a live utterance handle (isPaused => utteranceRef non-null), and a
\* play() never issues a backend resume of a cancelled utterance.
PausedHasLiveHandle ==
  /\ [](isPaused => utteranceRef # 0)
  /\ [][ (lastOp' = "play" /\ calls' = <<"resume">>)
          => utteranceRef # 0 /\ utteranceRef \notin stale ]_vars

\* C18: an end or error of the paused utterance leaves Idle with cursor -1, and a later
\* play never resumes an utterance the backend no longer holds.
EndWhilePausedResets ==
  /\ [][ (lastOp' \in {"end", "error"} /\ mounted /\ isPaused /\ Speaking(eventUtt'))
          => Idle' /\ currentWordIndex' = -1 ]_vars
  /\ [][ (lastOp' = "play" /\ utteranceRef \notin InUse)
          => calls' # <<"resume">> ]_vars

====
